---- MODULE Spec2Model ----
(***************************************************************************)
(* The tour sequencer of src/src/hooks/useTour.ts (the useTour hook), the  *)
(* wrapper that mounts it and auto-starts it (src/unnamed/part_001,        *)
(* TourProviderWrapper), and their environment: the renderer's callbacks,  *)
(* the browser location, localStorage, the clock and the timer queue.      *)
(*                                                                         *)
(* A Step is modelled by its navigateTo property: the path, or "" when the *)
(* property is absent (both are falsy in the code's tests).  Sequences are *)
(* 1-based here and 0-based in the code: steps[stepIndex] of the code is   *)
(* steps[stepIndex + 1] here.                                              *)
(*                                                                         *)
(* One action is one task of the event loop: the handler, React's batched  *)
(* state update, and the navigation effect that runs after the render when *)
(* one of its dependencies changed.  The function useNavigate returns is   *)
(* taken to keep its identity, so that handleNavigation and startTour are  *)
(* created once and a change of location alone does not run the effect.   *)
(***************************************************************************)
EXTENDS Integers, Sequences, FiniteSets, TLC

\* ---------------------------------------------------------------- bounds
\* addSteps is explored while the resulting list is at most this long
MaxSteps == 2
\* the clock stops here (milliseconds)
MaxTime == 1000
\* settle timers pending at one time
MaxTimers == 1
\* the clock advances in jumps of this many milliseconds
TickMs == 500

\* ------------------------------------------------- program constants
SettleDelay == 500
AutoStartDelay == 1000

NoNav == ""
Paths == {"/", "/profile", "/settings"}

INITIAL_STEPS ==
  << NoNav, NoNav, NoNav, NoNav, "/", NoNav, "/profile", NoNav, "/settings", NoNav, "/" >>

\* react-joyride's enumerations, as far as the handler distinguishes them
STATUS_RUNNING == "running"
STATUS_FINISHED == "finished"
STATUS_SKIPPED == "skipped"
EVENT_STEP_AFTER == "step:after"
EVENT_TARGET_NOT_FOUND == "error:target_not_found"
EVENT_TOUR_STATUS == "tour:status"
ACTION_NEXT == "next"
ACTION_PREV == "prev"
ACTION_CLOSE == "close"
ACTION_UPDATE == "update"

Statuses == {STATUS_RUNNING, STATUS_FINISHED, STATUS_SKIPPED}
EventTypes == {EVENT_STEP_AFTER, EVENT_TARGET_NOT_FOUND, EVENT_TOUR_STATUS}
Actions == {ACTION_NEXT, ACTION_PREV, ACTION_CLOSE, ACTION_UPDATE}

\* ------------------------------------------------------ input domains
\* the step lists a caller passes to startTour, setSteps and addSteps
StepLists == {<< >>, << "/profile" >>, << NoNav, "/profile" >>}

\* the initialSteps argument of useTour: part_001 calls useTour(), so it is
\* the parameter's default
initialSteps == INITIAL_STEPS

VARIABLES
  run,           \* tourState.run
  steps,         \* tourState.steps
  stepIndex,     \* tourState.stepIndex
  tourKey,       \* tourState.tourKey
  location,      \* window.location.pathname
  tourViewed,    \* localStorage has the item 'tourViewed'
  resumeTimers,  \* due times of the pending settle timers, oldest first
  autoTimers,    \* due times of the pending auto-start timers, oldest first
  now,           \* Date.now()
  shown,         \* the renderer has been given run = true since the mount
  keyStale,      \* history: the sequencer changed the route and tourKey has
                 \* not been assigned since
  last           \* history: the sequencer's last task

vars == << run, steps, stepIndex, tourKey, location, tourViewed,
           resumeTimers, autoTimers, now, shown, keyStale, last >>

\* The sequencer's state together with what its handlers read and write
\* outside React; writes counts the localStorage.setItem calls of one task.
World ==
  [ run |-> run, steps |-> steps, stepIndex |-> stepIndex, tourKey |-> tourKey,
    location |-> location, tourViewed |-> tourViewed,
    resumeTimers |-> resumeTimers, keyStale |-> keyStale, writes |-> 0 ]

\* steps[i] of the code is truthy
HasStep(s, i) == i >= 0 /\ i < Len(s)

StepAt(s, i) == s[i + 1]

\* ------------------------------------------------------------ the hook

\* useTour.ts 110-120.  navigate() moves window.location synchronously; the
\* timeout is queued SettleDelay ms from now.
handleNavigation(w, navigateToPath) ==
  IF w.location # navigateToPath
  THEN [w EXCEPT !.run = FALSE,
                 !.location = navigateToPath,
                 !.resumeTimers = Append(@, now + SettleDelay),
                 !.keyStale = TRUE]
  ELSE w

\* faulty variant: the resumption keeps the old key
resumeTour_KeepsKey(w) == [w EXCEPT !.run = TRUE]

\* faulty variant: the timeout's callback regenerates the key only
resumeTour_StaysPaused(w) == [w EXCEPT !.tourKey = now, !.keyStale = FALSE]

\* useTour.ts 115-118: the timeout's callback
resumeTour(w) == [w EXCEPT !.run = TRUE, !.tourKey = now, !.keyStale = FALSE]

\* faulty variant: the effect does not navigate
navigationEffect_Never(w) == w

\* useTour.ts 125-133: the body of the navigation effect
navigationEffect(w) ==
  IF w.run /\ HasStep(w.steps, w.stepIndex) /\ StepAt(w.steps, w.stepIndex) # NoNav
  THEN handleNavigation(w, StepAt(w.steps, w.stepIndex))
  ELSE w

\* faulty variant: the effect does not depend on stepIndex
depsChanged_IgnoresIndex(old, new, newArray) ==
  \/ old.run # new.run
  \/ newArray
  \/ old.steps # new.steps

\* useTour.ts 133: the effect's dependencies.  steps is compared by
\* reference: newArray tells that the task stored another array.
depsChanged(old, new, newArray) ==
  \/ old.run # new.run
  \/ old.stepIndex # new.stepIndex
  \/ newArray
  \/ old.steps # new.steps

\* The render that commits a task's updates, followed by the effect.  The
\* effect's own update (run: false) re-runs it once more, with run false,
\* where it does nothing.
commit(old, new, newArray) ==
  IF depsChanged(old, new, newArray) THEN navigationEffect(new) ELSE new

\* faulty variant: the tour is activated without waiting for the first step's page
startTour_ActivatesAtOnce(w, startSteps) ==
  LET effectiveSteps == IF Len(startSteps) > 0 THEN startSteps ELSE INITIAL_STEPS
      reset == [w EXCEPT !.run = FALSE, !.steps = effectiveSteps,
                         !.stepIndex = 0, !.tourKey = now, !.keyStale = FALSE]
      firstStep == effectiveSteps[1]
  IN  IF firstStep # NoNav /\ w.location # firstStep
      THEN [handleNavigation(reset, firstStep) EXCEPT !.run = TRUE]
      ELSE [reset EXCEPT !.run = TRUE]

\* faulty variant: the restart keeps the current index
startTour_KeepsIndex(w, startSteps) ==
  LET effectiveSteps == IF Len(startSteps) > 0 THEN startSteps ELSE INITIAL_STEPS
      reset == [w EXCEPT !.run = FALSE, !.steps = effectiveSteps,
                         !.tourKey = now, !.keyStale = FALSE]
      firstStep == effectiveSteps[1]
  IN  IF firstStep # NoNav /\ w.location # firstStep
      THEN handleNavigation(reset, firstStep)
      ELSE [reset EXCEPT !.run = TRUE]

\* useTour.ts 139-159
startTour(w, startSteps) ==
  LET effectiveSteps == IF Len(startSteps) > 0 THEN startSteps ELSE INITIAL_STEPS
      reset == [w EXCEPT !.run = FALSE, !.steps = effectiveSteps,
                         !.stepIndex = 0, !.tourKey = now, !.keyStale = FALSE]
      firstStep == effectiveSteps[1]
  IN  IF firstStep # NoNav /\ w.location # firstStep
      THEN handleNavigation(reset, firstStep)
      ELSE [reset EXCEPT !.run = TRUE]

\* faulty variant: a close stops the tour without recording it
handleJoyrideCallback_CloseUnrecorded(w, data) ==
  IF data.status = STATUS_FINISHED \/ data.status = STATUS_SKIPPED
  THEN [w EXCEPT !.run = FALSE, !.stepIndex = 0,
                 !.tourViewed = TRUE, !.writes = @ + 1]
  ELSE IF data.type = EVENT_STEP_AFTER \/ data.type = EVENT_TARGET_NOT_FOUND
  THEN LET nextStepIndex ==
             data.index + (IF data.action = ACTION_PREV THEN -1 ELSE 1)
       IN  IF data.action = ACTION_CLOSE
           THEN [w EXCEPT !.run = FALSE]
           ELSE [w EXCEPT !.stepIndex = nextStepIndex, !.run = TRUE]
  ELSE w

\* faulty variant: every advance goes forward
handleJoyrideCallback_AlwaysForward(w, data) ==
  IF data.status = STATUS_FINISHED \/ data.status = STATUS_SKIPPED
  THEN [w EXCEPT !.run = FALSE, !.stepIndex = 0,
                 !.tourViewed = TRUE, !.writes = @ + 1]
  ELSE IF data.type = EVENT_STEP_AFTER \/ data.type = EVENT_TARGET_NOT_FOUND
  THEN LET nextStepIndex == data.index + 1
       IN  IF data.action = ACTION_CLOSE
           THEN [w EXCEPT !.run = FALSE, !.tourViewed = TRUE, !.writes = @ + 1]
           ELSE [w EXCEPT !.stepIndex = nextStepIndex, !.run = TRUE]
  ELSE w

\* faulty variant: a target that is not found is not handled
handleJoyrideCallback_IgnoresNotFound(w, data) ==
  IF data.status = STATUS_FINISHED \/ data.status = STATUS_SKIPPED
  THEN [w EXCEPT !.run = FALSE, !.stepIndex = 0,
                 !.tourViewed = TRUE, !.writes = @ + 1]
  ELSE IF data.type = EVENT_STEP_AFTER
  THEN LET nextStepIndex ==
             data.index + (IF data.action = ACTION_PREV THEN -1 ELSE 1)
       IN  IF data.action = ACTION_CLOSE
           THEN [w EXCEPT !.run = FALSE, !.tourViewed = TRUE, !.writes = @ + 1]
           ELSE [w EXCEPT !.stepIndex = nextStepIndex, !.run = TRUE]
  ELSE w

\* faulty variant: a close goes back to the first step, as a finish does
handleJoyrideCallback_CloseResets(w, data) ==
  IF data.status = STATUS_FINISHED \/ data.status = STATUS_SKIPPED
  THEN [w EXCEPT !.run = FALSE, !.stepIndex = 0,
                 !.tourViewed = TRUE, !.writes = @ + 1]
  ELSE IF data.type = EVENT_STEP_AFTER \/ data.type = EVENT_TARGET_NOT_FOUND
  THEN LET nextStepIndex ==
             data.index + (IF data.action = ACTION_PREV THEN -1 ELSE 1)
       IN  IF data.action = ACTION_CLOSE
           THEN [w EXCEPT !.run = FALSE, !.stepIndex = 0,
                          !.tourViewed = TRUE, !.writes = @ + 1]
           ELSE [w EXCEPT !.stepIndex = nextStepIndex, !.run = TRUE]
  ELSE w

\* faulty variant: events of every type are taken as step events
handleJoyrideCallback_AnyType(w, data) ==
  IF data.status = STATUS_FINISHED \/ data.status = STATUS_SKIPPED
  THEN [w EXCEPT !.run = FALSE, !.stepIndex = 0,
                 !.tourViewed = TRUE, !.writes = @ + 1]
  ELSE LET nextStepIndex ==
             data.index + (IF data.action = ACTION_PREV THEN -1 ELSE 1)
       IN  IF data.action = ACTION_CLOSE
           THEN [w EXCEPT !.run = FALSE, !.tourViewed = TRUE, !.writes = @ + 1]
           ELSE [w EXCEPT !.stepIndex = nextStepIndex, !.run = TRUE]

\* useTour.ts 166-188; data is react-joyride's CallBackProps
handleJoyrideCallback(w, data) ==
  IF data.status = STATUS_FINISHED \/ data.status = STATUS_SKIPPED
  THEN [w EXCEPT !.run = FALSE, !.stepIndex = 0,
                 !.tourViewed = TRUE, !.writes = @ + 1]
  ELSE IF data.type = EVENT_STEP_AFTER \/ data.type = EVENT_TARGET_NOT_FOUND
  THEN LET nextStepIndex ==
             data.index + (IF data.action = ACTION_PREV THEN -1 ELSE 1)
       IN  IF data.action = ACTION_CLOSE
           THEN [w EXCEPT !.run = FALSE, !.tourViewed = TRUE, !.writes = @ + 1]
           ELSE [w EXCEPT !.stepIndex = nextStepIndex, !.run = TRUE]
  ELSE w

\* faulty variant: the new steps are put in front of the old ones
addSteps_Prepends(w, newSteps) ==
  [w EXCEPT !.steps = newSteps \o w.steps, !.tourKey = now, !.keyStale = FALSE]

\* useTour.ts 194-200
addSteps(w, newSteps) ==
  [w EXCEPT !.steps = w.steps \o newSteps, !.tourKey = now, !.keyStale = FALSE]

\* useTour.ts 206-208
setRun(w, isRunning) == [w EXCEPT !.run = isRunning]

\* faulty variant: the key is not regenerated
setSteps_KeepsKey(w, newSteps) == [w EXCEPT !.steps = newSteps]

\* useTour.ts 220
setSteps(w, newSteps) ==
  [w EXCEPT !.steps = newSteps, !.tourKey = now, !.keyStale = FALSE]

\* ------------------------------------------------------- whole tasks
\* each is the handler followed by the commit of its updates

startTourTask(w, startSteps) == commit(w, startTour(w, startSteps), FALSE)

callbackTask(w, data) == commit(w, handleJoyrideCallback(w, data), FALSE)

addStepsTask(w, newSteps) == commit(w, addSteps(w, newSteps), TRUE)

setRunTask(w, isRunning) == commit(w, setRun(w, isRunning), FALSE)

setStepsTask(w, newSteps) == commit(w, setSteps(w, newSteps), TRUE)

resumeTask(w) == commit(w, resumeTour(w), FALSE)

\* ------------------------------------------------------------- actions

\* the indexes react-joyride can report: those of the steps it was given
StepIndexes(s) == 0 .. (Len(s) - 1)

\* the CallBackProps the handler can be given, with an index among js
CallbackData(js) ==
  [type : EventTypes, action : Actions, status : Statuses, index : js]

\* the step the renderer shows and reports: the controlled stepIndex, and
\* still the last step once stepIndex has moved one past it
ShownIndexes(s, i) ==
  IF i = Len(s) THEN StepIndexes(s) \cap {i - 1} ELSE StepIndexes(s) \cap {i}

\* the events explored; the tooltip of the first step has no Back button
ReportedData(s, i) ==
  {d \in CallbackData(ShownIndexes(s, i)) : d.action = ACTION_PREV => d.index > 0}

\* the events the claims are stated for: every event about the step at
\* stepIndex or about one of its neighbours
NearData(s, i) == CallbackData(StepIndexes(s) \cap {i - 1, i, i + 1})

\* The state after a task; timers are only queued while the clock can reach
\* them and at most MaxTimers are pending.
Fits(w) ==
  /\ Len(w.resumeTimers) <= MaxTimers
  /\ \A i \in 1..Len(w.resumeTimers) : w.resumeTimers[i] <= MaxTime

Becomes(w, l) ==
  /\ Fits(w)
  /\ run' = w.run
  /\ steps' = w.steps
  /\ stepIndex' = w.stepIndex
  /\ tourKey' = w.tourKey
  /\ location' = w.location
  /\ tourViewed' = w.tourViewed
  /\ resumeTimers' = w.resumeTimers
  /\ shown' = (shown \/ w.run)
  /\ keyStale' = w.keyStale
  /\ last' = l

\* part_001 61 (useTour()), useTour.ts 95-100, part_001 64-72 (the mount
\* effect queues the auto-start unless the flag is stored)
Init ==
  /\ run = FALSE
  /\ steps = initialSteps
  /\ stepIndex = 0
  /\ now = 0
  /\ tourKey = now
  /\ location \in Paths
  /\ tourViewed \in BOOLEAN
  /\ resumeTimers = << >>
  /\ autoTimers = IF tourViewed THEN << >> ELSE << now + AutoStartDelay >>
  /\ shown = FALSE
  /\ keyStale = FALSE
  /\ last = "mount"

\* part_001 76 (the Show Tour button) or any caller of startTour
StartTourWith(s) ==
  /\ Becomes(startTourTask(World, s), "startTour")
  /\ UNCHANGED << autoTimers, now >>

StartTour == \E s \in StepLists \cup {initialSteps} : StartTourWith(s)

\* history label of an event: the branch of the handler it takes
IsStop(data) == data.status = STATUS_FINISHED \/ data.status = STATUS_SKIPPED

IsStepEvent(data) ==
  data.type = EVENT_STEP_AFTER \/ data.type = EVENT_TARGET_NOT_FOUND

EventLabel(data) ==
  IF IsStop(data) THEN "finish"
  ELSE IF ~IsStepEvent(data) THEN "ignored"
  ELSE IF data.type = EVENT_STEP_AFTER
       THEN (IF data.action = ACTION_CLOSE THEN "close" ELSE "advance")
       ELSE (IF data.action = ACTION_CLOSE THEN "close:notfound" ELSE "advance:notfound")

\* AppTour.tsx 38: the renderer reports an event; it reports none before it
\* was first run
JoyrideCallbackWith(data) ==
  /\ shown
  /\ Becomes(callbackTask(World, data), EventLabel(data))
  /\ UNCHANGED << autoTimers, now >>

JoyrideCallback == \E data \in ReportedData(steps, stepIndex) : JoyrideCallbackWith(data)

AddStepsWith(s) ==
  /\ Len(steps) + Len(s) <= MaxSteps
  /\ Becomes(addStepsTask(World, s), "addSteps")
  /\ UNCHANGED << autoTimers, now >>

AddSteps == \E s \in StepLists : AddStepsWith(s)

SetStepsWith(s) ==
  /\ Becomes(setStepsTask(World, s), "setSteps")
  /\ UNCHANGED << autoTimers, now >>

SetSteps == \E s \in StepLists : SetStepsWith(s)

SetRunWith(b) ==
  /\ Becomes(setRunTask(World, b), "setRun")
  /\ UNCHANGED << autoTimers, now >>

SetRun == \E b \in BOOLEAN : SetRunWith(b)

\* useTour.ts 115-118: the oldest settle timer is due
ResumeTimerFires ==
  /\ resumeTimers # << >>
  /\ Head(resumeTimers) <= now
  /\ Becomes(resumeTask([World EXCEPT !.resumeTimers = Tail(@)]), "resume")
  /\ UNCHANGED << autoTimers, now >>

\* part_001 68-70: the auto-start timer is due; it calls startTour()
AutoStartFires ==
  /\ autoTimers # << >>
  /\ Head(autoTimers) <= now
  /\ autoTimers' = Tail(autoTimers)
  /\ Becomes(startTourTask(World, initialSteps), "autoStart")
  /\ UNCHANGED now

\* part_001 13, 24, 34, 43-45: the user follows a link of the application
UserNavigates ==
  \E p \in Paths \ {location} :
    /\ Becomes([World EXCEPT !.location = p], last)
    /\ UNCHANGED << autoTimers, now >>

\* Time passes; a timer that is due fires before the clock moves on.
Tick ==
  /\ now + TickMs <= MaxTime
  /\ \A i \in 1..Len(resumeTimers) : resumeTimers[i] > now
  /\ \A i \in 1..Len(autoTimers) : autoTimers[i] > now
  /\ now' = now + TickMs
  /\ UNCHANGED << last, run, steps, stepIndex, tourKey, location,
                  tourViewed, resumeTimers, autoTimers, shown, keyStale >>

Next ==
  \/ StartTour
  \/ JoyrideCallback
  \/ AddSteps
  \/ SetSteps
  \/ SetRun
  \/ ResumeTimerFires
  \/ AutoStartFires
  \/ UserNavigates
  \/ Tick

Spec == Init /\ [][Next]_vars

\* One event for each branch of the handler: finish, an event it ignores,
\* close, next and back.
BranchData(s, i) ==
  {d \in ReportedData(s, i) :
     /\ d.status # STATUS_SKIPPED
     /\ d.type # EVENT_TARGET_NOT_FOUND
     /\ (d.status = STATUS_FINISHED) => (d.type = EVENT_TOUR_STATUS)
     /\ (d.type = EVENT_TOUR_STATUS) = (d.action = ACTION_UPDATE)}

JoyrideBranchCallback ==
  \E data \in BranchData(steps, stepIndex) : JoyrideCallbackWith(data)

LiveNext ==
  \/ StartTour
  \/ JoyrideBranchCallback
  \/ AddSteps
  \/ SetSteps
  \/ SetRun
  \/ ResumeTimerFires
  \/ AutoStartFires
  \/ UserNavigates
  \/ Tick

\* The same operations with the renderer's events taken one for each branch
\* of the handler.  The browser runs a timer's callback once it is due, and
\* time passes.
LiveSpec ==
  /\ Init
  /\ [][LiveNext]_vars
  /\ WF_vars(Tick)
  /\ WF_vars(ResumeTimerFires)
  /\ WF_vars(AutoStartFires)

\* ------------------------------------------------------------- claims

StartInputs == StepLists \cup {initialSteps}

EffectiveSteps(s) == IF Len(s) > 0 THEN s ELSE INITIAL_STEPS

Delta(data) == IF data.action = ACTION_PREV THEN -1 ELSE 1

\* C1 (as claimed): whenever run is true, 0 <= stepIndex < Len(steps).
C1_RunningIndexInRange == run => (0 <= stepIndex /\ stepIndex < Len(steps))

\* C1: the state the claim excludes is reached on the default tour: running,
\* with stepIndex one past the last step.
C1_PastTheEnd == run /\ steps = INITIAL_STEPS /\ stepIndex = Len(INITIAL_STEPS)

\* C2: startTour(s), called in any state, leaves stepIndex = 0 and steps = s
\* when s is non-empty and steps = INITIAL_STEPS when s is empty; steps is
\* never empty after a start.  The auto-start's startTour() does the same.
C2_StartTourResets ==
  \A s \in StartInputs :
    LET r == startTourTask(World, s)
    IN  /\ r.stepIndex = 0
        /\ r.steps = (IF s # << >> THEN s ELSE INITIAL_STEPS)
        /\ r.steps # << >>

C2_Witness ==
  /\ last = "startTour"
  /\ steps = << NoNav, "/profile" >>
  /\ stepIndex = 0
  /\ tourKey = now
  /\ now > 0

IsForward(data) ==
  IsStepEvent(data) /\ data.action # ACTION_PREV /\ data.action # ACTION_CLOSE

\* C4 (as claimed): from a running state with stepIndex = Len(steps) - 1, a
\* forward advance from that step leaves run false and the flag stored.
C4_AdvancePastEndStops ==
  [][\A data \in ReportedData(steps, stepIndex) :
       ( /\ JoyrideCallbackWith(data)
         /\ run
         /\ stepIndex = Len(steps) - 1
         /\ data.index = stepIndex
         /\ IsForward(data) )
       => (~run' /\ tourViewed')]_vars

\* C5: a close event (action CLOSE on a step:after or target-not-found
\* event, whatever its status and index), at any step and in any state, leaves run false and the flag
\* stored, with exactly one localStorage.setItem call in the task.
C5_CloseStopsAndWritesOnce ==
  \A data \in NearData(steps, stepIndex) :
    (IsStepEvent(data) /\ data.action = ACTION_CLOSE)
    => LET r == callbackTask(World, data)
       IN  ~r.run /\ r.tourViewed /\ r.writes = 1

C5_Witness ==
  /\ last = "close"
  /\ ~run
  /\ tourViewed
  /\ steps = INITIAL_STEPS
  /\ stepIndex = 2

\* C6 (as claimed): the auto-start timer never activates the tour in a state
\* where the flag is already stored.
C6_NoAutoStartOnceSeen ==
  [][(AutoStartFires /\ tourViewed) => ~run']_vars

\* C7 (as claimed): after a route change by the sequencer the tour is not
\* active before tourKey has been regenerated.
C7_KeyFreshWhenActive == run => ~keyStale

\* C7 (amended): after a route change by the sequencer, tourKey has been
\* regenerated once the pending settle timers have fired.
C7_KeyFreshOnceSettled == resumeTimers = << >> => ~keyStale

C7_Witness ==
  /\ last = "resume"
  /\ run
  /\ resumeTimers = << >>
  /\ tourKey = now
  /\ HasStep(steps, stepIndex)
  /\ StepAt(steps, stepIndex) = location

C9_IndexMovesByOne ==
  [][\A data \in ReportedData(steps, stepIndex) :
       ( /\ JoyrideCallbackWith(data)
         /\ IsStepEvent(data)
         /\ data.action # ACTION_CLOSE )
       => stepIndex' = stepIndex + Delta(data)]_vars

\* C9 (amended): after a step:after or target-not-found event that is not a
\* close and whose status is neither FINISHED nor SKIPPED, stepIndex is the
\* event's index minus one for PREV and plus one otherwise; that is one
\* from the previous stepIndex when the event's index is the previous
\* stepIndex.
C9_IndexFromEvent ==
  \A data \in NearData(steps, stepIndex) :
    (IsStepEvent(data) /\ ~IsStop(data) /\ data.action # ACTION_CLOSE)
    => LET r == callbackTask(World, data)
       IN  /\ r.stepIndex = data.index + Delta(data)
           /\ data.index = stepIndex => r.stepIndex = stepIndex + Delta(data)

C9_Witness ==
  /\ last = "advance"
  /\ run
  /\ steps = INITIAL_STEPS
  /\ stepIndex = 2

\* C10: for every state and every (action, index, status) with the index at
\* or next to stepIndex, the handler's
\* task gives the same state and the same stored flag for type
\* TARGET_NOT_FOUND as for type STEP_AFTER.
C10_NotFoundLikeStepAfter ==
  \A data \in NearData(steps, stepIndex) :
    data.type = EVENT_STEP_AFTER
    => callbackTask(World, [data EXCEPT !.type = EVENT_TARGET_NOT_FOUND])
         = callbackTask(World, data)

C10_Witness ==
  /\ last = "advance:notfound"
  /\ run
  /\ steps = INITIAL_STEPS
  /\ stepIndex = 3

\* C11 (as claimed): addSteps(extra) leaves steps = old steps followed by
\* extra, and stepIndex and run as they were.
C11_AddStepsKeepsPosition ==
  [][AddSteps => ( /\ \E s \in StepLists : steps' = steps \o s
                   /\ stepIndex' = stepIndex
                   /\ run' = run )]_vars

\* C11 (amended): addSteps(extra) leaves steps = old steps followed by extra
\* and stepIndex as it was; its own update leaves run as it was, and the
\* navigation effect, which runs again because steps is a new array, sets
\* run false exactly when the tour is running on a step (of the new list)
\* whose navigateTo differs from the location.
C11_AddStepsAppends ==
  \A s \in StepLists :
    LET r == addStepsTask(World, s)
        pauses == /\ run
                  /\ HasStep(steps \o s, stepIndex)
                  /\ StepAt(steps \o s, stepIndex) # NoNav
                  /\ StepAt(steps \o s, stepIndex) # location
    IN  /\ r.steps = steps \o s
        /\ r.stepIndex = stepIndex
        /\ addSteps(World, s).run = run
        /\ r.run = (run /\ ~pauses)

C11_Witness ==
  /\ last = "addSteps"
  /\ steps = << NoNav, "/profile" >>
  /\ stepIndex = 1
  /\ ~run
  /\ location = "/profile"
  /\ resumeTimers = << now + SettleDelay >>

CutOff ==
  /\ resumeTimers # << >>
  /\ \/ now + TickMs > MaxTime
     \/ \E i \in 1..Len(resumeTimers) : resumeTimers[i] <= now
     \/ \E i \in 1..Len(autoTimers) : autoTimers[i] <= now
  /\ \/ Head(resumeTimers) > now
     \/ ~Fits(resumeTask([World EXCEPT !.resumeTimers = Tail(@)]))
  /\ \/ autoTimers = << >>
     \/ Head(autoTimers) > now
     \/ ~Fits(startTourTask(World, initialSteps))

\* C13: whenever the tour is paused with a settle timer pending (as
\* handleNavigation leaves it), and after every startTour call, run is
\* eventually true, as far as the exploration reaches, given that timers
\* fire and time passes.
C13_PauseLeadsToRun ==
  ( \/ (~run /\ resumeTimers # << >>)
    \/ last \in {"startTour", "autoStart"} )
  ~> (run \/ CutOff)

C13_Witness ==
  /\ last = "resume"
  /\ run
  /\ steps = << "/profile" >>
  /\ stepIndex = 0
  /\ location = "/profile"
  /\ now >= SettleDelay

\* C14 (as claimed): once finish, skip or close has stopped the tour, and no
\* operation of the sequencer has been called since, a settle timer that
\* fires leaves run false.
C14_StoppedStaysStopped ==
  [][( /\ last \in {"finish", "close", "close:notfound"}
       /\ ~run
       /\ ResumeTimerFires )
     => ~run']_vars

\* C15 (as claimed): while the tour is paused for a navigation, with the
\* settle timer pending and no other operation called since, a
\* target-not-found event from the renderer leaves stepIndex at the step
\* that required the navigation.
C15_PausedStepNotSkipped ==
  [][( /\ last \in {"startTour", "autoStart", "advance", "advance:notfound"}
       /\ ~run
       /\ resumeTimers # << >>
       /\ JoyrideCallback
       /\ last' = "advance:notfound" )
     => stepIndex' = stepIndex]_vars

\* C16 (as claimed): when the auto-start timer fires while the tour is
\* running on a step after the first, stepIndex and steps stay as they are.
C16_AutoStartKeepsProgress ==
  [][(AutoStartFires /\ run /\ stepIndex > 0)
     => (stepIndex' = stepIndex /\ steps' = steps)]_vars

OnItsPage(w) ==
  (w.run /\ HasStep(w.steps, w.stepIndex) /\ StepAt(w.steps, w.stepIndex) # NoNav)
  => w.location = StepAt(w.steps, w.stepIndex)

\* the task activated the tour or moved it to another step or step list
Arrives(r, newArray) ==
  r.run /\ (~run \/ newArray \/ r.stepIndex # stepIndex \/ r.steps # steps)

\* a task changes the route at most once, and only together with the pause
\* and a new settle timer; pending is the timers it started with
OneRouteChange(r, pending) ==
  /\ Len(r.resumeTimers) <= Len(pending) + 1
  /\ r.location # location
       => /\ ~r.run
          /\ HasStep(r.steps, r.stepIndex)
          /\ r.location = StepAt(r.steps, r.stepIndex)
          /\ r.resumeTimers = Append(pending, now + SettleDelay)

C18_StopResetsCloseKeeps ==
  \A data \in ReportedData(steps, stepIndex) :
    LET r == callbackTask(World, data)
    IN  /\ IsStop(data)
             => /\ ~r.run
                /\ r.stepIndex = 0
                /\ r.steps = steps
                /\ r.tourKey = tourKey
        /\ (~IsStop(data) /\ IsStepEvent(data) /\ data.action = ACTION_CLOSE)
             => /\ ~r.run
                /\ r.stepIndex = stepIndex
                /\ r.steps = steps
                /\ r.tourKey = tourKey

C18_Witness ==
  /\ last = "finish"
  /\ ~run
  /\ stepIndex = 0
  /\ steps = << NoNav, "/profile" >>
  /\ tourViewed
  /\ tourKey < now

\* C19: a renderer event whose status is neither FINISHED nor SKIPPED and
\* whose type is neither STEP_AFTER nor TARGET_NOT_FOUND changes nothing
\* and stores nothing; only finish, skip and close store the flag (the
\* other operations make no localStorage.setItem call), and no operation
\* clears it.
C19_OtherEventsIgnored ==
  /\ \A data \in ReportedData(steps, stepIndex) :
       LET r == callbackTask(World, data)
       IN  /\ (~IsStop(data) /\ ~IsStepEvent(data)) => r = World
           /\ r.writes > 0
                => (IsStop(data) \/ (IsStepEvent(data) /\ data.action = ACTION_CLOSE))
           /\ r.tourViewed = (tourViewed \/ r.writes > 0)
  /\ \A s \in StartInputs :
       LET r == startTourTask(World, s)
       IN  r.writes = 0 /\ r.tourViewed = tourViewed
  /\ \A s \in StepLists :
       LET a == addStepsTask(World, s)
           r == setStepsTask(World, s)
       IN  /\ a.writes = 0 /\ a.tourViewed = tourViewed
           /\ r.writes = 0 /\ r.tourViewed = tourViewed
  /\ \A b \in BOOLEAN :
       LET r == setRunTask(World, b)
       IN  r.writes = 0 /\ r.tourViewed = tourViewed
  /\ LET r == resumeTask(World)
     IN  r.writes = 0 /\ r.tourViewed = tourViewed

C19_Witness ==
  /\ last = "ignored"
  /\ run
  /\ stepIndex = 1
  /\ steps = INITIAL_STEPS
  /\ ~tourViewed

====
